---- MODULE Spec2Model ----
(***************************************************************************)
(* Trash-day address resolution engine of mycity/intents/trash_intent.py. *)
(*                                                                         *)
(* A Python str is a sequence of one-character strings, so that regular    *)
(* expressions, substring tests, lower(), replace(), split() and join()    *)
(* are computed on characters.  A function that may raise returns a record *)
(* [exc, val]: exc is "none" on a normal return and the exception's class  *)
(* name otherwise.                                                         *)
(***************************************************************************)
EXTENDS Integers, Sequences, FiniteSets, TLC

VARIABLES
    pc,                 \* position in the resolution call
    address,            \* str: the address handed to get_trash_and_recycling_days
    zip_code,           \* None or str: the optional zip code
    suggest_response,   \* what the address-suggest endpoint answers
    schedule_response,  \* what the places (schedule) endpoint answers
    title_days,         \* the day names upstream wrote into the zone title
    api_params,         \* get_trash_and_recycling_days: api_params
    validated,          \* result of validate_found_address, "pending" before
    trash_data,         \* get_trash_and_recycling_days: trash_data
    trash_days,         \* the day list handed to build_speech_from_list_of_days
    requests,           \* the outbound requests issued so far, in order
    outcome             \* what the resolution call ended with

vars == <<pc, address, zip_code, suggest_response, schedule_response, title_days,
          api_params, validated, trash_data, trash_days, requests, outcome>>

----------------------------------------------------------------------------
(* Bounds of the model *)

MaxCandidates == 3
MaxDays == 3
MaxDigits == 2
MaxSpeechDays == 4

----------------------------------------------------------------------------
(* Python values *)

None == <<"None">>

Ok(v) == [exc |-> "none", val |-> v]
Raise(e) == [exc |-> e, val |-> <<>>]

EmptyDict == [k \in {} |-> <<>>]

\* truth value of an optional str: None and "" are falsy
TruthyStr(s) == s # None /\ s # <<>>

Digits == {"0", "1", "2", "3", "4", "5", "6", "7", "8", "9"}
Whitespace == {" ", "\t", "\n"}

UpperCase == <<"A","B","C","D","E","F","G","H","I","J","K","L","M",
               "N","O","P","Q","R","S","T","U","V","W","X","Y","Z">>
LowerCase == <<"a","b","c","d","e","f","g","h","i","j","k","l","m",
               "n","o","p","q","r","s","t","u","v","w","x","y","z">>

lower_char(c) ==
    IF \E i \in 1..Len(UpperCase) : UpperCase[i] = c
    THEN LowerCase[CHOOSE i \in 1..Len(UpperCase) : UpperCase[i] = c]
    ELSE c

\* str.lower()
lower(s) == [i \in 1..Len(s) |-> lower_char(s[i])]

\* a in b, for two str
str_in(a, b) ==
    \E i \in 0..(Len(b) - Len(a)) : SubSeq(b, i + 1, i + Len(a)) = a

\* str.isdigit()
isdigit(s) == Len(s) > 0 /\ \A i \in 1..Len(s) : s[i] \in Digits

\* sep.join(items)
RECURSIVE join(_, _)
join(sep, items) ==
    IF Len(items) = 0 THEN <<>>
    ELSE IF Len(items) = 1 THEN items[1]
    ELSE items[1] \o sep \o join(sep, Tail(items))

\* str.split() with no separator: runs of whitespace separate, no empty pieces
RECURSIVE split_from(_, _, _)
split_from(s, i, cur) ==
    LET flush == IF cur = <<>> THEN <<>> ELSE <<cur>>
    IN  IF i > Len(s) THEN flush
        ELSE IF s[i] \in Whitespace THEN flush \o split_from(s, i + 1, <<>>)
        ELSE split_from(s, i + 1, Append(cur, s[i]))

split(s) == split_from(s, 1, <<>>)

\* str.replace('&', '')
replace_amp(s) == SelectSeq(s, LAMBDA c : c # "&")

\* number of consecutive digits of s from position i on
RECURSIVE digit_run(_, _)
digit_run(s, i) ==
    IF i <= Len(s) /\ s[i] \in Digits THEN 1 + digit_run(s, i + 1) ELSE 0

\* DAY_CODE_REGEX as r'\d+ - ': the optional A forgotten
DAY_CODE_REGEX_no_A(s, i) ==
    LET d == digit_run(s, i)
        k == i + d
    IN  IF d >= 1 /\ k + 2 <= Len(s) /\ SubSeq(s, k, k + 2) = <<" ", "-", " ">>
        THEN (k + 3) - i
        ELSE 0

\* DAY_CODE_REGEX = r'\d+A? - ' : length of the match starting at i, 0 for none
DAY_CODE_REGEX(s, i) ==
    LET d == digit_run(s, i)
        j == i + d
        k == IF j <= Len(s) /\ s[j] = "A" THEN j + 1 ELSE j
    IN  IF d >= 1 /\ k + 2 <= Len(s) /\ SubSeq(s, k, k + 2) = <<" ", "-", " ">>
        THEN (k + 3) - i
        ELSE 0

\* re.sub(DAY_CODE_REGEX, '', s): every leftmost non-overlapping match removed
RECURSIVE re_sub_from(_, _)
re_sub_from(s, i) ==
    IF i > Len(s) THEN <<>>
    ELSE LET m == DAY_CODE_REGEX(s, i)
         IN  IF m > 0 THEN re_sub_from(s, i + m)
             ELSE <<s[i]>> \o re_sub_from(s, i + 1)

re_sub_day_code(s) == re_sub_from(s, 1)

\* re.search('\d{5}', s): the match's text, None when nothing matches
RECURSIVE re_search_from(_, _)
re_search_from(s, i) ==
    IF i + 4 > Len(s) THEN None
    ELSE IF \A k \in i..(i + 4) : s[k] \in Digits THEN SubSeq(s, i, i + 4)
    ELSE re_search_from(s, i + 1)

re_search_zip(s) == re_search_from(s, 1)

----------------------------------------------------------------------------
(* StreetAddressParser().parse: the tokenizer of the streetaddress library. *)
(* The house number is a leading all-digit token, the street type is the   *)
(* first later token that is a known street type, the street name is what  *)
(* lies between the two, and everything after the street type is "other".  *)

StreetTypes == {<<"s","t">>, <<"s","t","r","e","e","t">>,
                <<"r","d">>, <<"r","o","a","d">>,
                <<"a","v","e">>, <<"a","v","e","n","u","e">>}

RECURSIVE first_street_type(_, _)
first_street_type(tokens, i) ==
    IF i > Len(tokens) THEN 0
    ELSE IF lower(tokens[i]) \in StreetTypes THEN i
    ELSE first_street_type(tokens, i + 1)

parse(addr_str) ==
    LET tokens == split(addr_str)
        has_house == Len(tokens) > 0 /\ isdigit(tokens[1])
        start == IF has_house THEN 2 ELSE 1
        t == first_street_type(tokens, start)
    IN  [house |-> IF has_house THEN tokens[1] ELSE None,
         street_name |-> IF t = 0 THEN join(<<" ">>, SubSeq(tokens, start, Len(tokens)))
                         ELSE join(<<" ">>, SubSeq(tokens, start, t - 1)),
         street_type |-> IF t = 0 THEN None ELSE tokens[t],
         other |-> IF t = 0 \/ t = Len(tokens) THEN None
                   ELSE join(<<" ">>, SubSeq(tokens, t + 1, Len(tokens)))]

----------------------------------------------------------------------------
(* JSON values of the schedule payload, tagged with their Python type *)

JNull == [t |-> "NoneType"]
JNum(n) == [t |-> "int", n |-> n]
JStr(s) == [t |-> "str", s |-> s]
JList(items) == [t |-> "list", items |-> items]
\* a dict is the sequence of its <<key, value>> entries, keys distinct
JDict(entries) == [t |-> "dict", d |-> entries]
Entry(key, value) == [k |-> key, v |-> value]

\* not x
falsy(x) ==
    CASE x.t = "NoneType" -> TRUE
      [] x.t = "int" -> x.n = 0
      [] x.t = "str" -> x.s = <<>>
      [] x.t = "list" -> x.items = <<>>
      [] x.t = "dict" -> x.d = <<>>

\* x[key] for a str key: only a dict can be subscripted by a str
subscript(x, key) ==
    IF x.t = "dict"
    THEN IF \E i \in 1..Len(x.d) : x.d[i].k = key
         THEN Ok(x.d[CHOOSE i \in 1..Len(x.d) : x.d[i].k = key].v)
         ELSE Raise("KeyError")
    ELSE Raise("TypeError")

----------------------------------------------------------------------------
(* The functions of trash_intent.py *)

\* the for loop of find_unique_zipcodes, from list position i (1-based) on;
\* the indexes kept are Python's, 0-based
RECURSIVE find_unique_zipcodes_loop(_, _, _)
find_unique_zipcodes_loop(address_request_json, i, found_zip_codes) ==
    IF i > Len(address_request_json) THEN Ok(found_zip_codes)
    ELSE LET m == re_search_zip(address_request_json[i].name)
         IN  IF m = None
             THEN Raise("AttributeError")     \* None.group(0)
             ELSE IF TruthyStr(m)
             THEN find_unique_zipcodes_loop(address_request_json, i + 1,
                    IF m \in DOMAIN found_zip_codes
                    THEN [found_zip_codes EXCEPT ![m] = Append(@, i - 1)]
                    ELSE found_zip_codes @@ (m :> <<i - 1>>))
             ELSE find_unique_zipcodes_loop(address_request_json, i + 1,
                    found_zip_codes)

find_unique_zipcodes(address_request_json) ==
    find_unique_zipcodes_loop(address_request_json, 1, EmptyDict)

validate_found_address(found_address_str, user_provided_address_str) ==
    LET found_address == parse(found_address_str)
        user_provided_address == parse(user_provided_address_str)
        ft == lower(found_address.street_type)
        ut == lower(user_provided_address.street_type)
    IN  IF found_address.house # user_provided_address.house THEN Ok(FALSE)
        ELSE IF found_address.street_name = None
                \/ user_provided_address.street_name = None
             THEN Raise("AttributeError")     \* None.lower()
        ELSE IF lower(found_address.street_name)
                    # lower(user_provided_address.street_name) THEN Ok(FALSE)
        ELSE IF found_address.street_type = None
                \/ user_provided_address.street_type = None
             THEN Raise("AttributeError")     \* None.lower()
        ELSE IF str_in(<<"r", "d">>, ft) /\ str_in(<<"r", "o", "a", "d">>, ut)
             THEN Ok(TRUE)
        ELSE IF ~str_in(ft, ut) /\ ~str_in(ut, ft) THEN Ok(FALSE)
        ELSE Ok(TRUE)

\* select_candidate with the ambiguity never raised: the first candidate instead
select_candidate_never_ambiguous(result_json, provided_zip_code) ==
    LET unique_zip_codes == find_unique_zipcodes(result_json)
    IN  IF unique_zip_codes.exc # "none" THEN unique_zip_codes
        ELSE IF Cardinality(DOMAIN unique_zip_codes.val) > 1
        THEN IF TruthyStr(provided_zip_code)
             THEN IF provided_zip_code \in DOMAIN unique_zip_codes.val
                  THEN Ok(result_json[unique_zip_codes.val[provided_zip_code][1] + 1])
                  ELSE Ok(EmptyDict)
             ELSE Ok(result_json[1])
        ELSE Ok(result_json[1])

\* select_candidate taking the last index under the zip code's key, not the first
select_candidate_last_match(result_json, provided_zip_code) ==
    LET unique_zip_codes == find_unique_zipcodes(result_json)
    IN  IF unique_zip_codes.exc # "none" THEN unique_zip_codes
        ELSE IF Cardinality(DOMAIN unique_zip_codes.val) > 1
        THEN IF TruthyStr(provided_zip_code)
             THEN IF provided_zip_code \in DOMAIN unique_zip_codes.val
                  THEN LET indexes == unique_zip_codes.val[provided_zip_code]
                       IN  Ok(result_json[indexes[Len(indexes)] + 1])
                  ELSE Ok(EmptyDict)
             ELSE Raise("MultipleAddressError")
        ELSE Ok(result_json[1])

\* select_candidate with the "return {}" of an unknown zip code left out, so that
\* the raise below it is reached
select_candidate_unknown_zip_raises(result_json, provided_zip_code) ==
    LET unique_zip_codes == find_unique_zipcodes(result_json)
    IN  IF unique_zip_codes.exc # "none" THEN unique_zip_codes
        ELSE IF Cardinality(DOMAIN unique_zip_codes.val) > 1
        THEN IF TruthyStr(provided_zip_code)
                /\ provided_zip_code \in DOMAIN unique_zip_codes.val
             THEN Ok(result_json[unique_zip_codes.val[provided_zip_code][1] + 1])
             ELSE Raise("MultipleAddressError")
        ELSE Ok(result_json[1])

\* select_candidate with len(unique_zip_codes) >= 1 for > 1
select_candidate_single_is_ambiguous(result_json, provided_zip_code) ==
    LET unique_zip_codes == find_unique_zipcodes(result_json)
    IN  IF unique_zip_codes.exc # "none" THEN unique_zip_codes
        ELSE IF Cardinality(DOMAIN unique_zip_codes.val) >= 1
        THEN IF TruthyStr(provided_zip_code)
             THEN IF provided_zip_code \in DOMAIN unique_zip_codes.val
                  THEN Ok(result_json[unique_zip_codes.val[provided_zip_code][1] + 1])
                  ELSE Ok(EmptyDict)
             ELSE Raise("MultipleAddressError")
        ELSE Ok(result_json[1])

\* the disambiguation of get_address_api_info, lines 212-224
select_candidate(result_json, provided_zip_code) ==
    LET unique_zip_codes == find_unique_zipcodes(result_json)
    IN  IF unique_zip_codes.exc # "none" THEN unique_zip_codes
        ELSE IF Cardinality(DOMAIN unique_zip_codes.val) > 1
        THEN IF TruthyStr(provided_zip_code)
             THEN IF provided_zip_code \in DOMAIN unique_zip_codes.val
                  THEN Ok(result_json[unique_zip_codes.val[provided_zip_code][1] + 1])
                  ELSE Ok(EmptyDict)
             ELSE Raise("MultipleAddressError")
        ELSE Ok(result_json[1])

get_address_api_info(provided_zip_code, request_result) ==
    IF ~request_result.ok THEN Ok(EmptyDict)
    ELSE IF request_result.json = <<>> THEN Ok(EmptyDict)
    ELSE select_candidate(request_result.json, provided_zip_code)

\* the rename of "name" to "formatted_address" before the request
rename_name(api_parameters) ==
    IF "name" \in DOMAIN api_parameters
    THEN [k \in (DOMAIN api_parameters \ {"name"}) \cup {"formatted_address"} |->
            IF k = "formatted_address" THEN api_parameters["name"]
            ELSE api_parameters[k]]
    ELSE api_parameters

get_trash_day_data(request_result) ==
    IF ~request_result.ok THEN JDict(<<>>) ELSE request_result.json

get_trash_days_from_trash_data(data) ==
    LET next_event == subscript(data, "next_event")
        zone == subscript(next_event.val, "zone")
        title == subscript(zone.val, "title")
        uncaught(r) == IF r.exc = "KeyError" THEN Raise("BadAPIResponse") ELSE r
    IN  IF next_event.exc # "none" THEN uncaught(next_event)
        ELSE IF zone.exc # "none" THEN uncaught(zone)
        ELSE IF title.exc # "none" THEN uncaught(title)
        ELSE IF title.val.t # "str" THEN Raise("TypeError")   \* re.sub
        ELSE Ok(split(replace_amp(re_sub_day_code(title.val.s))))

\* build_speech_from_list_of_days without the comma before "and"
build_speech_no_oxford_comma(days) ==
    IF Len(days) = 0 THEN Raise("BadAPIResponse")
    ELSE IF Len(days) = 1 THEN Ok(days[1])
    ELSE IF Len(days) = 2 THEN Ok(join(<<" ", "a", "n", "d", " ">>, days))
    ELSE Ok(join(<<",", " ">>, SubSeq(days, 1, Len(days) - 1))
            \o <<" ", "a", "n", "d", " ">> \o days[Len(days)])

build_speech_from_list_of_days(days) ==
    IF Len(days) = 0 THEN Raise("BadAPIResponse")
    ELSE IF Len(days) = 1 THEN Ok(days[1])
    ELSE IF Len(days) = 2 THEN Ok(join(<<" ", "a", "n", "d", " ">>, days))
    ELSE Ok(join(<<",", " ">>, SubSeq(days, 1, Len(days) - 1))
            \o <<",", " ", "a", "n", "d", " ">> \o days[Len(days)])

----------------------------------------------------------------------------
(* The inputs of a resolution call *)

Sp == <<" ">>
House1 == <<"1">>
House01 == <<"0", "1">>
House2 == <<"2">>
Main == <<"M", "a", "i", "n">>
MAIN == <<"M", "A", "I", "N">>
Elm == <<"E", "l", "m">>
St == <<"S", "t">>
Street == <<"S", "t", "r", "e", "e", "t">>
Rd == <<"R", "d">>
Road == <<"R", "o", "a", "d">>
Ave == <<"A", "v", "e">>
AVENUE == <<"A", "V", "E", "N", "U", "E">>
Zip02118 == <<"0", "2", "1", "1", "8">>
Zip02119 == <<"0", "2", "1", "1", "9">>
Zip02120 == <<"0", "2", "1", "2", "0">>
Monday == <<"M", "o", "n", "d", "a", "y">>
Tuesday == <<"T", "u", "e", "s", "d", "a", "y">>
Wednesday == <<"W", "e", "d", "n", "e", "s", "d", "a", "y">>
Thursday == <<"T", "h", "u", "r", "s", "d", "a", "y">>

\* "<house> <street name> <street type>"
Address(house, name, type) == house \o Sp \o name \o Sp \o type

\* the addresses a user gives in the pipeline
UserAddresses == {Address(House1, Main, St), Address(House1, Main, Road)}

\* the zip code handed over: absent, empty, or five digits
ProvidedZipCodes == {None, <<>>, Zip02118, Zip02119, Zip02120}

Name118 == Address(House1, Main, St) \o Sp \o Zip02118
Name119 == Address(House1, Main, St) \o Sp \o Zip02119
NameNoZip == Address(House1, Main, St)
NameRd119 == Address(House1, Main, Rd) \o Sp \o Zip02119
NameHouse2 == Address(House2, Main, St) \o Sp \o Zip02118

\* the canonical names the suggestion service answers with; NameNoZip carries
\* no postal code
CandidateNames == {Name118, Name119, NameNoZip, NameRd119, NameHouse2}

\* a candidate list: the place_id tells the list's entries apart
CandidateLists ==
    UNION {{[i \in 1..n |-> [name |-> names[i], place_id |-> i - 1]] :
                names \in [1..n -> CandidateNames]} : n \in 0..MaxCandidates}

SuggestResponses ==
    {[ok |-> FALSE, json |-> <<>>]}
        \cup {[ok |-> TRUE, json |-> c] : c \in CandidateLists}

\* a zone title "<digits><optional A> - Day1<sep>Day2..."
RECURSIVE interleave(_, _)
interleave(days, seps) ==
    IF Len(days) = 0 THEN <<>>
    ELSE IF Len(days) = 1 THEN days[1]
    ELSE days[1] \o seps[1] \o interleave(Tail(days), Tail(seps))

Title(form) ==
    form.digits \o (IF form.a THEN <<"A">> ELSE <<>>) \o <<" ", "-", " ">>
        \o interleave(form.days, form.seps)

TitlePayload(title) ==
    JDict(<<Entry("next_event",
                  JDict(<<Entry("zone",
                                JDict(<<Entry("title", JStr(title))>>))>>))>>)

TitleDigitStrings == UNION {[1..n -> {"2", "3"}] : n \in 1..MaxDigits}
TitleDayNames == {Monday, Tuesday}
TitleSeparators ==
    {<<" ">>, <<" ", " ">>, <<" ", "&">>, <<"&", "\t">>, <<" ", "&", " ">>}

\* the titles of n day names: one separator in each of the n - 1 gaps
TitleForms(n) ==
    {[digits |-> d, a |-> b, days |-> ds, seps |-> ss] :
        d \in TitleDigitStrings, b \in BOOLEAN,
        ds \in [1..n -> TitleDayNames],
        ss \in [1..(IF n = 0 THEN 0 ELSE n - 1) -> TitleSeparators]}

\* the titles of the pipeline: "3A - Monday &Tuesday", "2 - Monday Tuesday", "3A - "
PipelineTitleForms ==
    {[digits |-> <<"3">>, a |-> TRUE, days |-> <<Monday, Tuesday>>,
      seps |-> <<<<" ", "&">>>>],
     [digits |-> <<"2">>, a |-> FALSE, days |-> <<Monday, Tuesday>>,
      seps |-> <<Sp>>],
     [digits |-> <<"3">>, a |-> TRUE, days |-> <<>>, seps |-> <<>>]}

\* answers of the schedule endpoint without a readable title
MalformedScheduleResponses ==
    {[ok |-> FALSE, json |-> JNull],
     [ok |-> TRUE, json |-> JNull],
     [ok |-> TRUE, json |-> JDict(<<>>)],
     [ok |-> TRUE, json |-> JList(<<JNum(1)>>)],
     [ok |-> TRUE, json |-> JDict(<<Entry("events", JList(<<>>))>>)],
     [ok |-> TRUE, json |-> JDict(<<Entry("next_event", JNull)>>)],
     [ok |-> TRUE, json |-> JDict(<<Entry("next_event",
                                JDict(<<Entry("zone", JDict(<<>>))>>))>>)],
     [ok |-> TRUE, json |-> JDict(<<Entry("next_event",
                                JDict(<<Entry("zone",
                                    JDict(<<Entry("title", JNum(7))>>))>>))>>)]}

ScheduleCases ==
    {[response |-> r, days |-> <<>>] : r \in MalformedScheduleResponses}
        \cup {[response |-> [ok |-> TRUE, json |-> TitlePayload(Title(f))],
               days |-> f.days] : f \in PipelineTitleForms}

\* how the call ended: the exception ("none" for a return), the value returned,
\* and the step of the call it ended at
Pending == [exc |-> "pending", val |-> <<>>, at |-> "none"]
Ended(r, step) == [exc |-> r.exc, val |-> r.val, at |-> step]

----------------------------------------------------------------------------
(* The resolution call: get_trash_and_recycling_days followed by           *)
(* build_speech_from_list_of_days, as get_trash_day_info runs them         *)

\* an endpoint that has not been asked yet
NoResponse == [ok |-> FALSE, json |-> <<>>]

Init ==
    /\ pc = "resolve"
    /\ address \in UserAddresses
    /\ zip_code \in ProvidedZipCodes
    /\ suggest_response = NoResponse
    /\ schedule_response = NoResponse
    /\ title_days = <<>>
    /\ api_params = EmptyDict
    /\ validated = "pending"
    /\ trash_data = JNull
    /\ trash_days = <<>>
    /\ requests = <<>>
    /\ outcome = Pending

\* lines 99-101: api_params = get_address_api_info(...); if not api_params: raise
GetAddressApiInfo ==
    /\ pc = "resolve"
    /\ suggest_response' \in SuggestResponses
    /\ LET r == get_address_api_info(zip_code, suggest_response')
       IN  /\ requests' = Append(requests, "address-suggest")
           /\ IF r.exc # "none"
              THEN /\ outcome' = Ended(r, "resolve")
                   /\ pc' = "done"
                   /\ api_params' = api_params
              ELSE IF DOMAIN r.val = {}
              THEN /\ outcome' = Ended(Raise("InvalidAddressError"), "resolve")
                   /\ pc' = "done"
                   /\ api_params' = r.val
              ELSE /\ outcome' = outcome
                   /\ pc' = "validate"
                   /\ api_params' = r.val
    /\ UNCHANGED <<address, zip_code, schedule_response,
                   title_days, validated, trash_data, trash_days>>

\* ValidateFoundAddress with the result of the validation not acted upon
ValidateFoundAddress_result_ignored ==
    /\ pc = "validate"
    /\ LET r == validate_found_address(api_params.name, address)
       IN  IF r.exc # "none"
           THEN /\ outcome' = Ended(r, "validate")
                /\ pc' = "done"
                /\ validated' = validated
           ELSE /\ outcome' = outcome
                /\ pc' = "fetch"
                /\ validated' = IF r.val THEN "accepted" ELSE "rejected"
    /\ UNCHANGED <<address, zip_code, suggest_response, schedule_response,
                   title_days, api_params, trash_data, trash_days, requests>>

\* lines 103-105: if not validate_found_address(...): raise InvalidAddressError
ValidateFoundAddress ==
    /\ pc = "validate"
    /\ LET r == validate_found_address(api_params.name, address)
       IN  IF r.exc # "none"
           THEN /\ outcome' = Ended(r, "validate")
                /\ pc' = "done"
                /\ validated' = validated
           ELSE IF ~r.val
           THEN /\ outcome' = Ended(Raise("InvalidAddressError"), "validate")
                /\ pc' = "done"
                /\ validated' = "rejected"
           ELSE /\ outcome' = outcome
                /\ pc' = "fetch"
                /\ validated' = "accepted"
    /\ UNCHANGED <<address, zip_code, suggest_response, schedule_response,
                   title_days, api_params, trash_data, trash_days, requests>>

\* lines 107-109: trash_data = get_trash_day_data(api_params); if not: raise
GetTrashDayData ==
    /\ pc = "fetch"
    /\ api_params' = rename_name(api_params)
    /\ requests' = Append(requests, "places")
    /\ \E s \in ScheduleCases :
          schedule_response' = s.response /\ title_days' = s.days
    /\ trash_data' = get_trash_day_data(schedule_response')
    /\ IF falsy(trash_data')
       THEN outcome' = Ended(Raise("BadAPIResponse"), "fetch") /\ pc' = "done"
       ELSE outcome' = outcome /\ pc' = "parse"
    /\ UNCHANGED <<address, zip_code, suggest_response, validated, trash_days>>

\* lines 111-113: trash_and_recycling_days = get_trash_days_from_trash_data(...)
GetTrashDaysFromTrashData ==
    /\ pc = "parse"
    /\ LET r == get_trash_days_from_trash_data(trash_data)
       IN  IF r.exc # "none"
           THEN /\ outcome' = Ended(r, "parse")
                /\ pc' = "done"
                /\ trash_days' = trash_days
           ELSE /\ outcome' = outcome
                /\ pc' = "speech"
                /\ trash_days' = r.val
    /\ UNCHANGED <<address, zip_code, suggest_response, schedule_response,
                   title_days, api_params, validated, trash_data, requests>>

\* line 50: trash_days_speech = build_speech_from_list_of_days(trash_days)
BuildSpeechFromListOfDays ==
    /\ pc = "speech"
    /\ outcome' = Ended(build_speech_from_list_of_days(trash_days), "speech")
    /\ pc' = "done"
    /\ UNCHANGED <<address, zip_code, suggest_response, schedule_response,
                   title_days, api_params, validated, trash_data, trash_days,
                   requests>>

Next ==
    \/ GetAddressApiInfo
    \/ ValidateFoundAddress
    \/ GetTrashDayData
    \/ GetTrashDaysFromTrashData
    \/ BuildSpeechFromListOfDays

Spec == Init /\ [][Next]_vars

----------------------------------------------------------------------------
(* validate_found_address on its own: every pair of a found and a user     *)
(* address over a few house numbers, street names and street types         *)

ValidatorAddresses ==
    {Address(h, n, t) : h \in {House1, House01, House2},
                        n \in {Main, MAIN, Elm},
                        t \in {St, Street, Rd, Road, Ave, AVENUE}}

InitValidate ==
    /\ pc = "validate"
    /\ address \in ValidatorAddresses
    /\ zip_code = None
    /\ \E found \in ValidatorAddresses :
          /\ api_params = [name |-> found, place_id |-> 0]
          /\ suggest_response = [ok |-> TRUE, json |-> <<api_params>>]
    /\ schedule_response = [ok |-> FALSE, json |-> JNull]
    /\ title_days = <<>>
    /\ validated = "pending"
    /\ trash_data = JNull
    /\ trash_days = <<>>
    /\ requests = <<"address-suggest">>
    /\ outcome = Pending

NextValidate == ValidateFoundAddress

SpecValidate == InitValidate /\ [][NextValidate]_vars

----------------------------------------------------------------------------
(* get_trash_days_from_trash_data on every zone title of the documented    *)
(* form, followed by the formatter                                         *)

InitDays ==
    /\ pc = "parse"
    /\ address = Address(House1, Main, St)
    /\ zip_code = None
    /\ suggest_response =
          [ok |-> TRUE,
           json |-> <<[name |-> Name118, place_id |-> 0]>>]
    /\ api_params = rename_name(suggest_response.json[1])
    /\ validated = "accepted"
    /\ \E n \in 0..MaxDays : \E f \in TitleForms(n) :
          /\ title_days = f.days
          /\ trash_data = TitlePayload(Title(f))
    /\ schedule_response = [ok |-> TRUE, json |-> trash_data]
    /\ trash_days = <<>>
    /\ requests = <<"address-suggest", "places">>
    /\ outcome = Pending

NextDays == GetTrashDaysFromTrashData \/ BuildSpeechFromListOfDays

SpecDays == InitDays /\ [][NextDays]_vars

----------------------------------------------------------------------------
(* build_speech_from_list_of_days on its own: every day list, duplicates   *)
(* included, up to MaxSpeechDays entries                                   *)

SpeechDayNames == {Monday, Tuesday, Wednesday, Thursday}

SpeechDayLists == UNION {[1..n -> SpeechDayNames] : n \in 0..MaxSpeechDays}

InitSpeech ==
    /\ pc = "speech"
    /\ address = Address(House1, Main, St)
    /\ zip_code = None
    /\ suggest_response =
          [ok |-> TRUE,
           json |-> <<[name |-> Name118, place_id |-> 0]>>]
    /\ api_params = rename_name(suggest_response.json[1])
    /\ validated = "accepted"
    /\ schedule_response = [ok |-> TRUE, json |-> JDict(<<>>)]
    /\ trash_data = JDict(<<>>)
    /\ title_days = <<>>
    /\ trash_days \in SpeechDayLists
    /\ requests = <<"address-suggest", "places">>
    /\ outcome = Pending

NextSpeech == BuildSpeechFromListOfDays

SpecSpeech == InitSpeech /\ [][NextSpeech]_vars

----------------------------------------------------------------------------
(* Vocabulary of the properties, stated on the inputs of the call *)

Candidates == suggest_response.json

\* the positions of a canonical name at which five digits in a row start
FiveDigitPositions(name) ==
    {i \in 1..(Len(name) - 4) : \A k \in i..(i + 4) : name[k] \in Digits}

CarriesPostalCode(name) == FiveDigitPositions(name) # {}

\* the postal code a canonical name carries: its leftmost five digits in a row
PostalCodeOf(name) ==
    LET i == CHOOSE i \in FiveDigitPositions(name) :
                 \A j \in FiveDigitPositions(name) : i <= j
    IN  SubSeq(name, i, i + 4)

AllCarryPostalCode ==
    \A i \in 1..Len(Candidates) : CarriesPostalCode(Candidates[i].name)

PostalCodes == {PostalCodeOf(Candidates[i].name) : i \in 1..Len(Candidates)}

\* the candidates answered all carry a postal code, n of them distinct
Answered == pc # "resolve" /\ suggest_response.ok /\ Candidates # <<>>

SeveralPostalCodes == Answered /\ AllCarryPostalCode /\ Cardinality(PostalCodes) > 1

NoPostalCodeSupplied == zip_code = None \/ zip_code = <<>>

\* the lowest list position (1-based) of a candidate carrying postal code z
FirstCarrying(z) ==
    CHOOSE i \in 1..Len(Candidates) :
        /\ PostalCodeOf(Candidates[i].name) = z
        /\ \A j \in 1..(i - 1) : PostalCodeOf(Candidates[j].name) # z

\* the candidate at 0-based list index n was selected
Selected(n) == DOMAIN api_params # {} /\ api_params.place_id = n

CountOf(seq, x) == Cardinality({i \in 1..Len(seq) : seq[i] = x})

FailureKinds == {"InvalidAddressError", "MultipleAddressError", "BadAPIResponse"}

----------------------------------------------------------------------------
(* The properties *)

\* C1: whatever the two endpoints answer, a resolution call ends either with
\* the formatted day string or with one of InvalidAddressError,
\* MultipleAddressError and BadAPIResponse; no other fault escapes.
C1_OnlyThreeFailureKinds ==
    pc = "done" =>
        \/ outcome.exc = "none" /\ outcome.at = "speech"
        \/ outcome.exc \in FailureKinds

\* C2: when house numbers and street names match, validate_found_address
\* accepts whenever one street type is a case-insensitive substring of the
\* other, and accepts the pair ("Rd", "Road") in both directions.
C2_AcceptsSubstringAndRdRoadBothWays ==
    LET found == parse(api_params.name)
        user == parse(address)
        ft == lower(found.street_type)
        ut == lower(user.street_type)
    IN  (/\ pc # "validate"
         /\ found.house = user.house
         /\ lower(found.street_name) = lower(user.street_name)
         /\ \/ str_in(ft, ut)
            \/ str_in(ut, ft)
            \/ found.street_type = Rd /\ user.street_type = Road
            \/ found.street_type = Road /\ user.street_type = Rd)
        => validated = "accepted"

\* C3: a candidate whose canonical name holds no 5-digit substring is skipped
\* while the index is built: no error is raised by find_unique_zipcodes or
\* get_address_api_info because of it.
C3_CandidateWithoutPostalCodeSkipped ==
    (Answered /\ ~AllCarryPostalCode) =>
        ~(outcome.at = "resolve"
          /\ outcome.exc \notin {"InvalidAddressError", "MultipleAddressError"})

\* C4: candidates carrying more than one distinct postal code and no postal
\* code supplied: the resolution fails with MultipleAddressError, with no
\* other failure kind and no candidate returned.
C4_AmbiguousWithoutPostalCode ==
    (SeveralPostalCodes /\ NoPostalCodeSupplied) =>
        /\ pc = "done"
        /\ outcome = Ended(Raise("MultipleAddressError"), "resolve")
        /\ api_params = EmptyDict

C4_Witness ==
    /\ SeveralPostalCodes
    /\ zip_code = None
    /\ Candidates = <<[name |-> Name118, place_id |-> 0],
                      [name |-> Name119, place_id |-> 1]>>
    /\ outcome.exc = "MultipleAddressError"

\* C5: more than one distinct postal code and the supplied postal code is a
\* key of the index: the candidate with the lowest list index among those
\* carrying that postal code is returned, never a later one.
C5_FirstCandidateOfSuppliedPostalCode ==
    (SeveralPostalCodes /\ ~NoPostalCodeSupplied /\ zip_code \in PostalCodes) =>
        /\ outcome.at # "resolve"
        /\ Selected(FirstCarrying(zip_code) - 1)

C5_Witness ==
    /\ SeveralPostalCodes
    /\ zip_code = Zip02119
    /\ Len(Candidates) = 3
    /\ PostalCodeOf(Candidates[1].name) = Zip02118
    /\ PostalCodeOf(Candidates[2].name) = Zip02119
    /\ PostalCodeOf(Candidates[3].name) = Zip02119
    /\ Selected(1)

\* C6: more than one distinct postal code and a postal code supplied that is
\* no key of the index: nothing is selected and the resolution fails with
\* InvalidAddressError, never with MultipleAddressError.
C6_UnknownPostalCodeIsInvalidAddress ==
    (SeveralPostalCodes /\ ~NoPostalCodeSupplied /\ zip_code \notin PostalCodes) =>
        /\ pc = "done"
        /\ outcome = Ended(Raise("InvalidAddressError"), "resolve")
        /\ api_params = EmptyDict

C6_Witness ==
    /\ SeveralPostalCodes
    /\ zip_code = Zip02120
    /\ PostalCodes = {Zip02118, Zip02119}
    /\ outcome.exc = "InvalidAddressError"

\* C7: all candidates share one postal code: the first candidate of the list
\* is returned, whether the postal code is absent, equal to that code or
\* different from it, and MultipleAddressError is never raised.
C7_SinglePostalCodeTakesFirst ==
    (Answered /\ AllCarryPostalCode /\ Cardinality(PostalCodes) = 1) =>
        /\ outcome.at # "resolve"
        /\ Selected(0)
        /\ outcome.exc # "MultipleAddressError"

C7_Witness ==
    /\ Answered
    /\ Len(Candidates) >= 2
    /\ AllCarryPostalCode
    /\ PostalCodes = {Zip02119}
    /\ zip_code = Zip02120
    /\ Selected(0)

\* C8: for a title "<digits><optional A> - " followed by day names separated
\* by whitespace and optional "&", get_trash_days_from_trash_data returns
\* exactly the day names, in order, duplicates kept; no element holds a
\* digit, the " - " separator or an "&"; a title of only a day-code yields
\* the empty list without raising.
C8_DayNamesOfTitle ==
    pc # "parse" =>
        /\ outcome.at # "parse"
        /\ trash_days = title_days
        /\ \A i \in 1..Len(trash_days) : \A k \in 1..Len(trash_days[i]) :
              trash_days[i][k] \notin Digits \cup {"&", "-", " "}

C8_Witness ==
    /\ pc = "speech"
    /\ trash_data = TitlePayload(<<"3", "A", " ", "-", " ">> \o Monday
                                    \o <<" ", "&">> \o Tuesday)
    /\ trash_days = <<Monday, Tuesday>>

\* n days joined by ", " from the left
RECURSIVE CommaSeparated(_, _)
CommaSeparated(days, n) ==
    IF n = 1 THEN days[1]
    ELSE CommaSeparated(days, n - 1) \o <<",", " ">> \o days[n]

\* C9: build_speech_from_list_of_days fails with BadAPIResponse exactly when
\* the list is empty; one day is returned verbatim, two are joined by " and ",
\* n >= 3 are the first n-1 joined by ", ", then ", and " and the last day.
C9_SpeechOfDays ==
    pc = "done" =>
        LET n == Len(trash_days)
        IN  /\ (outcome.exc = "BadAPIResponse") <=> (n = 0)
            /\ n > 0 => outcome.exc = "none"
            /\ n = 1 => outcome.val = trash_days[1]
            /\ n = 2 => outcome.val = trash_days[1] \o <<" ", "a", "n", "d", " ">>
                                        \o trash_days[2]
            /\ n >= 3 => outcome.val = CommaSeparated(trash_days, n - 1)
                                        \o <<",", " ", "a", "n", "d", " ">>
                                        \o trash_days[n]

C9_Witness ==
    /\ pc = "done"
    /\ trash_days = <<Monday, Tuesday, Wednesday>>
    /\ outcome.val = Monday \o <<",", " ">> \o Tuesday
                        \o <<",", " ", "a", "n", "d", " ">> \o Wednesday

\* C10: the schedule endpoint is queried at most once, and only after the
\* suggestion endpoint was queried exactly once, a candidate was selected and
\* validate_found_address accepted it; a run ending in InvalidAddressError or
\* MultipleAddressError issues no schedule request.
C10_ScheduleRequestAfterValidation ==
    /\ CountOf(requests, "places") <= 1
    /\ CountOf(requests, "places") = 1 =>
          /\ requests = <<"address-suggest", "places">>
          /\ DOMAIN api_params # {}
          /\ \E i \in 1..Len(Candidates) :
                /\ Candidates[i].place_id = api_params.place_id
                /\ validate_found_address(Candidates[i].name, address) = Ok(TRUE)
          /\ validated = "accepted"
    /\ (pc = "done"
        /\ outcome.exc \in {"InvalidAddressError", "MultipleAddressError"}) =>
          CountOf(requests, "places") = 0

C10_Witness ==
    /\ pc = "done"
    /\ requests = <<"address-suggest", "places">>
    /\ validated = "accepted"
    /\ outcome.exc = "none"

====
